---------------------------- MODULE Spec2Model ----------------------------
(***************************************************************************)
(* Road Rakshak 2.0: the accident-data pipeline of analytics.py and the    *)
(* Streamlit session it runs in (app.py).                                  *)
(*                                                                         *)
(* Python strings are TLA+ strings (TLC evaluates Len, SubSeq and \o on    *)
(* them).  A pandas missing value is the marker NaN, Python's None is the  *)
(* record None.  A DataFrame is its set of column names and the sequence   *)
(* of its rows, each row a record over those columns.                      *)
(***************************************************************************)
EXTENDS Integers, Sequences, FiniteSets, TLC

VARIABLES
    csv,        \* the file at FIXED_CSV_PATH: [exists, columns, rows]
    session,    \* st.session_state: a dictionary from keys to values
    call,       \* the last call of analyze_accident_data: what it returned
    mapped,     \* the last call of _map_location_to_city: argument and result
    ui,         \* what analytics_module rendered when it last ran
    earlier,    \* the call of analyze_accident_data before the last one
    pc,         \* where the run of app.py is, and the interaction that started it
    complaint   \* what complaint_module rendered when it last ran

vars == <<csv, session, call, mapped, ui, earlier, pc, complaint>>

-----------------------------------------------------------------------------
(* Python values *)

\* a returned or stored value carries its Python type: isinstance(x, dict) is
\* x.type = "dict"
None == [type |-> "NoneType"]
PyStr(s) == [type |-> "str", val |-> s]
PyDict(d) == [type |-> "dict", val |-> d]
NaN == "<NaN>"
NaT == [y |-> 0, m |-> 0, d |-> 0]

\* str(x) of a cell: a missing value prints as "nan"
Str(v) == IF v = NaN THEN "nan" ELSE v

Digits == "0123456789"
UpperCase == "ABCDEFGHIJKLMNOPQRSTUVWXYZ"
LowerCase == "abcdefghijklmnopqrstuvwxyz"
\* the characters of the modelled texts, in code point order
CodePoints == " -.0123456789:ABCDEFGHIJKLMNOPQRSTUVWXYZabcdefghijklmnopqrstuvwxyz"

CharAt(s, i) == SubSeq(s, i, i)
IndexIn(alphabet, c) ==
    IF \E i \in 1..Len(alphabet) : CharAt(alphabet, i) = c
    THEN CHOOSE i \in 1..Len(alphabet) : CharAt(alphabet, i) = c
    ELSE 0

\* str.strip(): leading and trailing whitespace removed
Whitespace == {" ", "\n", "\t"}
RECURSIVE lstrip(_)
lstrip(s) ==
    IF Len(s) > 0 /\ CharAt(s, 1) \in Whitespace THEN lstrip(SubSeq(s, 2, Len(s))) ELSE s
RECURSIVE rstrip(_)
rstrip(s) ==
    IF Len(s) > 0 /\ CharAt(s, Len(s)) \in Whitespace THEN rstrip(SubSeq(s, 1, Len(s) - 1)) ELSE s
strip(s) == rstrip(lstrip(s))

\* str.lower(), character by character
LowerOf ==
    [c \in {CharAt(UpperCase, i) : i \in 1..Len(UpperCase)} |->
       CharAt(LowerCase, IndexIn(UpperCase, c))]
lower_char(c) == IF c \in DOMAIN LowerOf THEN LowerOf[c] ELSE c
lower(s) == LET chars == [i \in 1..Len(s) |-> lower_char(CharAt(s, i))]
                join[i \in 0..Len(s)] == IF i = 0 THEN "" ELSE join[i - 1] \o chars[i]
            IN join[Len(s)]

\* Python's `sub in s` for strings: a left-to-right scan for the first match
RECURSIVE FindFrom(_, _, _)
FindFrom(sub, s, i) ==
    IF i + Len(sub) - 1 > Len(s) THEN 0
    ELSE IF SubSeq(s, i, i + Len(sub) - 1) = sub THEN i
    ELSE FindFrom(sub, s, i + 1)
str_in(sub, s) == FindFrom(sub, s, 1) > 0

\* Python's s < t on strings: by code point, a proper prefix first
RECURSIVE str_lt(_, _)
str_lt(s, t) ==
    IF Len(t) = 0 THEN FALSE
    ELSE IF Len(s) = 0 THEN TRUE
    ELSE IF CharAt(s, 1) = CharAt(t, 1)
         THEN str_lt(SubSeq(s, 2, Len(s)), SubSeq(t, 2, Len(t)))
         ELSE IndexIn(CodePoints, CharAt(s, 1)) < IndexIn(CodePoints, CharAt(t, 1))

-----------------------------------------------------------------------------
(* st.session_state *)

UNSELECTED == "Select City..."
JURISDICTIONS == <<UNSELECTED, "Hyderabad", "Mumbai", "Delhi", "Bengaluru", "Chennai">>

\* `selected_city = st.session_state.get('selected_city')` followed by the test
\* `not selected_city or selected_city == "Select City..."`
has_city_sentinel_unchecked ==
    /\ "selected_city" \in DOMAIN session
    /\ session.selected_city # ""

session_has_city ==
    /\ "selected_city" \in DOMAIN session
    /\ session.selected_city # ""
    /\ session.selected_city # UNSELECTED

-----------------------------------------------------------------------------
(* analytics.py: _map_location_to_city *)

hyderabad_locations ==
    <<"Madhapur", "Hitech City", "Gachibowli", "Raidurg Metro Road", "Banjara Hills",
      "Kukatpally", "Ameerpet", "LB Nagar", "Uppal Ring Road">>
bengaluru_locations ==
    <<"Silk Board", "Electronic", "Marathahalli", "Whitefield", "MG Road",
      "Hebbal Flyover", "Yeshwanthpur">>
chennai_locations ==
    <<"Guindy Junc", "T Nagar", "OMR Sholinganallur", "Anna Salai", "Poonamallee">>
vijayawada_locations ==
    <<"Benz Circle", "MG Road", "Ring Road", "Kanuru Road", "Ramavarapadu">>

\* any(loc in location for loc in locations)
any_in(locations, location) ==
    \E i \in 1..Len(locations) : str_in(locations[i], location)

map_order_swapped(location) ==
    LET loc == strip(Str(location)) IN
    IF any_in(hyderabad_locations, loc) THEN "Hyderabad"
    ELSE IF any_in(vijayawada_locations, loc) THEN "Vijayawada"
    ELSE IF any_in(chennai_locations, loc) THEN "Chennai"
    ELSE IF any_in(bengaluru_locations, loc) THEN "Bengaluru"
    ELSE IF session_has_city THEN session.selected_city
    ELSE "Unknown"

_map_location_to_city(location) ==
    LET loc == strip(Str(location)) IN
    IF any_in(hyderabad_locations, loc) THEN "Hyderabad"
    ELSE IF any_in(bengaluru_locations, loc) THEN "Bengaluru"
    ELSE IF any_in(chennai_locations, loc) THEN "Chennai"
    ELSE IF any_in(vijayawada_locations, loc) THEN "Vijayawada"
    ELSE IF session_has_city THEN session.selected_city
    ELSE "Unknown"

-----------------------------------------------------------------------------
(* pandas: parsing *)

IsDigit(c) == IndexIn(Digits, c) > 0
AllDigits(s) == Len(s) > 0 /\ \A i \in 1..Len(s) : IsDigit(CharAt(s, i))
RECURSIVE int(_)
int(s) ==
    IF Len(s) = 0 THEN 0
    ELSE 10 * int(SubSeq(s, 1, Len(s) - 1)) + (IndexIn(Digits, CharAt(s, Len(s))) - 1)

IsLeap(y) == (y % 4 = 0 /\ y % 100 # 0) \/ y % 400 = 0
DaysIn(y, m) ==
    IF m = 2 THEN (IF IsLeap(y) THEN 28 + 1 ELSE 28)
    ELSE IF m \in {4, 6, 9, 11} THEN 30 ELSE 31

\* pd.to_datetime(x, errors='coerce') of one cell.  The modelled date texts are
\* ISO dates (YYYY-MM-DD) and texts that are no date in any format; whatever
\* does not parse is coerced to NaT.
to_datetime(v) ==
    IF v = NaN THEN NaT
    ELSE IF /\ Len(v) = 10
            /\ CharAt(v, 5) = "-" /\ CharAt(v, 8) = "-"
            /\ AllDigits(SubSeq(v, 1, 4)) /\ AllDigits(SubSeq(v, 6, 7))
            /\ AllDigits(SubSeq(v, 9, 10))
         THEN LET y == int(SubSeq(v, 1, 4))
                  m == int(SubSeq(v, 6, 7))
                  d == int(SubSeq(v, 9, 10))
              IN IF y >= 1 /\ m \in 1..12 /\ d >= 1 /\ d <= DaysIn(y, m)
                 THEN [y |-> y, m |-> m, d |-> d] ELSE NaT
    ELSE NaT

\* Series.dt.day_name() of one timestamp
DayNames == <<"Sunday", "Monday", "Tuesday", "Wednesday", "Thursday", "Friday", "Saturday">>
MonthOffsets == <<0, 3, 2, 5, 0, 3, 5, 1, 4, 6, 2, 4>>
day_name(t) ==
    IF t = NaT THEN NaN ELSE
    LET y == IF t.m < 3 THEN t.y - 1 ELSE t.y
    IN DayNames[((y + (y \div 4) - (y \div 100) + (y \div 400) + MonthOffsets[t.m] + t.d) % 7) + 1]

\* pd.to_datetime(x, format='%H:%M', errors='coerce').dt.hour of one cell:
\* %H is one or two digits up to 23, %M one or two digits up to 59, and the
\* whole text must match.  [nan |-> TRUE] is the missing hour.
NoHour == [nan |-> TRUE, h |-> 0]
to_hour(v) ==
    IF v = NaN THEN NoHour
    ELSE LET c == FindFrom(":", v, 1)
             hh == SubSeq(v, 1, c - 1)
             mm == SubSeq(v, c + 1, Len(v))
         IN IF /\ c > 0
               /\ AllDigits(hh) /\ Len(hh) <= 2 /\ int(hh) <= 23
               /\ AllDigits(mm) /\ Len(mm) <= 2 /\ int(mm) <= 59
            THEN [nan |-> FALSE, h |-> int(hh)] ELSE NoHour

-----------------------------------------------------------------------------
(* pandas: series of (label, value) pairs *)

RECURSIVE SumSeq(_)
SumSeq(s) == IF Len(s) = 0 THEN 0 ELSE Head(s) + SumSeq(Tail(s))

Column(rows, col) == [i \in 1..Len(rows) |-> rows[i][col]]

\* the distinct values of a sequence, in the order of their first occurrence
RECURSIVE unique(_)
unique(s) ==
    IF Len(s) = 0 THEN <<>>
    ELSE LET rest == unique(SubSeq(s, 1, Len(s) - 1))
             x == s[Len(s)]
         IN IF \E i \in 1..Len(rest) : rest[i] = x THEN rest ELSE Append(rest, x)

\* a set of strings as the sorted sequence groupby() iterates
RECURSIVE sorted(_)
sorted(S) ==
    IF S = {} THEN <<>>
    ELSE LET least == CHOOSE k \in S : \A j \in S \ {k} : str_lt(k, j)
         IN <<least>> \o sorted(S \ {least})

Remove(s, i) == SubSeq(s, 1, i - 1) \o SubSeq(s, i + 1, Len(s))

\* the position of the first largest value of a non-empty series
argmax(series) ==
    CHOOSE i \in 1..Len(series) :
        /\ \A j \in 1..Len(series) : series[j][2] <= series[i][2]
        /\ \A j \in 1..(i - 1) : series[j][2] < series[i][2]

\* Series.nlargest(n): the n largest values, largest first, equal values in
\* the order they have in the series (keep='first')
RECURSIVE nlargest(_, _)
nlargest(n, series) ==
    IF n = 0 \/ Len(series) = 0 THEN <<>>
    ELSE LET i == argmax(series)
         IN <<series[i]>> \o nlargest(n - 1, Remove(series, i))

\* Series.value_counts(): one entry per distinct value, most frequent first,
\* equally frequent values in the order of their first occurrence
value_counts(s) ==
    LET keys == unique(s)
        counts == [k \in 1..Len(keys) |->
                     <<keys[k], Cardinality({i \in 1..Len(s) : s[i] = keys[k]})>>]
    IN nlargest(Len(counts), counts)

\* df.groupby(by)[col].sum(): one entry per distinct key, keys sorted
groupby_sum(rows, by, col) ==
    LET keys == sorted({rows[i][by] : i \in 1..Len(rows)})
    IN [k \in 1..Len(keys) |->
          <<keys[k], SumSeq(Column(SelectSeq(rows, LAMBDA r : r[by] = keys[k]), col))>>]

head(series, n) == SubSeq(series, 1, IF Len(series) < n THEN Len(series) ELSE n)

-----------------------------------------------------------------------------
(* analytics.py: the charts.  A chart image is modelled by the series it    *)
(* plots, (label, value) pairs in plotting order; the empty string returned *)
(* for an empty frame by the empty series.                                  *)

FIXED_CSV_PATH == "accidents.csv"

_generate_bar_chart(df) ==
    IF Len(df.rows) = 0 THEN <<>>
    ELSE IF "accidents" \in df.columns
         THEN nlargest(5, groupby_sum(df.rows, "Location", "accidents"))
         ELSE head(value_counts(Column(df.rows, "Location")), 5)

_generate_pie_chart(df) ==
    IF Len(df.rows) = 0 THEN <<>>
    ELSE IF "accidents" \in df.columns
         THEN groupby_sum(df.rows, "DayOfWeek", "accidents")
         ELSE value_counts(Column(df.rows, "DayOfWeek"))

-----------------------------------------------------------------------------
(* analytics.py: analyze_accident_data, statement by statement *)

\* df[col] = f(row), for every row
with_column(df, col, f(_)) ==
    [columns |-> df.columns \cup {col},
     rows |-> [i \in 1..Len(df.rows) |->
                 [c \in (DOMAIN df.rows[i]) \cup {col} |->
                    IF c = col THEN f(df.rows[i]) ELSE df.rows[i][c]]]]

\* the frame is read once and kept: a later call finds the rows that the
\* in-place dropna of the call before it left
read_csv_kept_frame ==
    LET kept == IF call.called /\ call.df.type = "DataFrame"
                THEN {call.df.rows[k].index : k \in 1..Len(call.df.rows)}
                ELSE 0..(Len(csv.rows) - 1)
    IN [columns |-> csv.columns,
        rows |-> SelectSeq([i \in 1..Len(csv.rows) |->
                              [c \in csv.columns \cup {"index"} |->
                                 IF c = "index" THEN i - 1 ELSE csv.rows[i][c]]],
                           LAMBDA r : r.index \in kept)]

\* pd.read_csv(FIXED_CSV_PATH): the rows get the index labels 0, 1, 2, ...
read_csv ==
    [columns |-> csv.columns,
     rows |-> [i \in 1..Len(csv.rows) |->
                 [c \in csv.columns \cup {"index"} |->
                    IF c = "index" THEN i - 1 ELSE csv.rows[i][c]]]]

\* line 118: df['City'] = df['Location'].apply(_map_location_to_city)
derive_city(df) == with_column(df, "City", LAMBDA r : _map_location_to_city(r.Location))

\* line 121: Series.str.contains(selected_city, case=False, na=False) of one
\* cell, after .astype(str).str.strip(); a city name holds no regex operator
city_matches(cell, selected_city) ==
    str_in(lower(selected_city), lower(strip(Str(cell))))

filter_by_city(df, selected_city) ==
    [df EXCEPT !.rows = SelectSeq(df.rows, LAMBDA r : city_matches(r.City, selected_city))]

\* line 128: df_filtered['Date'] = pd.to_datetime(df_filtered['Date'], errors='coerce')
parse_dates(df) == with_column(df, "Date", LAMBDA r : to_datetime(r.Date))

\* line 129: df_filtered.dropna(subset=['Location', 'Date'], inplace=True)
dropna_location_only(df) ==
    [df EXCEPT !.rows = SelectSeq(df.rows, LAMBDA r : r.Location # NaN)]

dropna_location_date(df) ==
    [df EXCEPT !.rows = SelectSeq(df.rows, LAMBDA r : r.Location # NaN /\ r.Date # NaT)]

\* line 130: df_filtered['DayOfWeek'] = df_filtered['Date'].dt.day_name()
add_day_of_week(df) == with_column(df, "DayOfWeek", LAMBDA r : day_name(r.Date))

\* lines 133-142, on a frame that has rows
total_counts_rows(df) == Len(df.rows)

total_accidents_of(df) ==
    IF "accidents" \in df.columns THEN SumSeq(Column(df.rows, "accidents"))
    ELSE Len(df.rows)

zone_by_row_count(df) ==
    LET counts == value_counts(Column(df.rows, "Location")) IN counts[argmax(counts)][1]

high_risk_zone_of(df) ==
    IF "accidents" \in df.columns
    THEN LET sums == groupby_sum(df.rows, "Location", "accidents") IN sums[argmax(sums)][1]
    ELSE LET counts == value_counts(Column(df.rows, "Location")) IN counts[argmax(counts)][1]

\* lines 149-150: the Hour column, and the rows without an hour dropped
add_hour(df) == with_column(df, "Hour", LAMBDA r : to_hour(r.Time))
dropna_hour(df) == [df EXCEPT !.rows = SelectSeq(df.rows, LAMBDA r : ~r.Hour.nan)]

\* f"{x}" of a number of the Hour column: .dt.hour is an integer column when
\* every time parsed and a float column (because of its NaN) when one did not
format_hour(h, is_float) == IF is_float THEN ToString(h) \o ".0" ELSE ToString(h)

\* lines 145-153: (peak_time_str, df_filtered as the statements leave it)
peak_time_of(df) ==
    IF "Time" \notin df.columns
    THEN [peak_time |-> "N/A (Time data missing in CSV)", df |-> df]
    ELSE LET with_hour == add_hour(df)
             is_float == \E i \in 1..Len(with_hour.rows) : with_hour.rows[i].Hour.nan
             kept == dropna_hour(with_hour)
             counts == value_counts([i \in 1..Len(kept.rows) |-> kept.rows[i].Hour.h])
             peak_hour == counts[argmax(counts)][1]
         IN IF Len(kept.rows) = 0
            THEN [peak_time |-> "N/A (Time data missing in CSV)", df |-> kept]
            ELSE [peak_time |-> format_hour(peak_hour, is_float) \o ":00 - "
                                  \o format_hour(peak_hour + 1, is_float) \o ":00",
                  df |-> kept]

\* What a call returned: the pair (value, df).  Beside it, what the call did:
\* the statements it ran, in order, and the index labels of df_filtered as
\* line 121 left it.
Returned(value, df, steps, filtered) ==
    [called |-> TRUE, value |-> value, df |-> df, steps |-> steps, filtered |-> filtered]
NoCall == [called |-> FALSE, value |-> None, df |-> None, steps |-> <<>>, filtered |-> <<>>]

\* lines 172-173: except Exception as e
GENERIC_FAILURE == "An unexpected error occurred during analysis: "
\* the exception leaves the function
Propagated(e, steps, filtered) ==
    Returned([type |-> "raised", val |-> e], None, steps, filtered)

Unexpected(e, steps, filtered) ==
    Returned(PyStr(GENERIC_FAILURE \o e), None, steps, filtered)

NO_CITY_MESSAGE ==
    "Error: Cannot analyze data. Please select a City on the main dashboard first."
NOT_FOUND_MESSAGE ==
    "Error: Fixed CSV file not found or path is incorrect. Ensure 'accidents.csv' is in the root directory."
no_data_message(selected_city) ==
    "Error: No accident data found in the CSV for the selected city: " \o selected_city \o "."

labels(df) == Column(df.rows, "index")

\* lines 126-170, on the non-empty filtered frame
analyze_filtered(filtered, selected_city, steps) ==
    IF "Date" \notin filtered.columns THEN Unexpected("'Date'", steps, labels(filtered))
    ELSE IF "Location" \notin filtered.columns
         THEN Unexpected("['Location']", steps \o <<"to_datetime">>, labels(filtered))
    ELSE
    LET normalized == add_day_of_week(dropna_location_date(parse_dates(filtered)))
        steps2 == steps \o <<"to_datetime", "dropna", "day_name", "total_accidents">>
    IN IF Len(normalized.rows) = 0
       THEN Unexpected("attempt to get argmax of an empty sequence", steps2, labels(filtered))
       ELSE
       LET peak == peak_time_of(normalized)
           analytics_data ==
               [high_risk_zone |-> high_risk_zone_of(normalized),
                peak_time |-> peak.peak_time,
                total_accidents |-> total_accidents_of(normalized),
                charts |-> [bar_chart_base64 |-> _generate_bar_chart(peak.df),
                            pie_chart_base64 |-> _generate_pie_chart(peak.df)],
                city |-> selected_city]
       IN Returned(PyDict(analytics_data),
                   [type |-> "DataFrame", columns |-> peak.df.columns, rows |-> peak.df.rows],
                   steps2 \o <<"high_risk_zone", "peak_time", "bar_chart", "pie_chart">>,
                   labels(filtered))

analyze_accident_data(data_source) ==
    IF ~session_has_city THEN Returned(PyStr(NO_CITY_MESSAGE), None, <<>>, <<>>)
    ELSE IF ~(data_source = FIXED_CSV_PATH /\ csv.exists)
         THEN Returned(PyStr(NOT_FOUND_MESSAGE), None, <<>>, <<>>)
    ELSE IF csv.columns = {}
         THEN Unexpected("No columns to parse from file", <<"read_csv">>, <<>>)
    ELSE IF "City" \notin csv.columns /\ "Location" \notin csv.columns
         THEN Unexpected("'Location'", <<"read_csv">>, <<>>)
    ELSE
    LET selected_city == session.selected_city
        df == IF "City" \notin csv.columns THEN derive_city(read_csv) ELSE read_csv
        filtered == filter_by_city(df, selected_city)
        steps == <<"read_csv">>
                 \o (IF "City" \notin csv.columns THEN <<"map_city">> ELSE <<>>)
                 \o <<"filter">>
    IN IF Len(filtered.rows) = 0
       THEN Returned(PyStr(no_data_message(selected_city)), None, steps, <<>>)
       ELSE analyze_filtered(filtered, selected_city, steps)

-----------------------------------------------------------------------------
(* analytics.py: analytics_module *)

\* what the module put on the page: st.info (no city), st.error (the analysis
\* failed) or st.success and the results, fresh or from the cache
NotRendered == [kind |-> "none", cached |-> FALSE, data |-> None, message |-> ""]
Rendered(kind, cached, data, message) ==
    [kind |-> kind, cached |-> cached, data |-> data, message |-> message]

\* isinstance(analytics_data, dict) and 'high_risk_zone' in analytics_data
is_analysis_result(value) ==
    value.type = "dict" /\ "high_risk_zone" \in DOMAIN value.val

\* the session holds an analysis, of whatever city
cache_hit_any_city ==
    /\ session.analytics_data.type = "dict"
    /\ DOMAIN session.analytics_data.val # {}

\* line 193: the session holds an analysis, and it is the selected city's
cache_hit ==
    /\ session.analytics_data.type = "dict"
    /\ DOMAIN session.analytics_data.val # {}
    /\ "city" \in DOMAIN session.analytics_data.val
    /\ session.analytics_data.val.city = session.selected_city

analytics_module ==
    IF ~session_has_city
    THEN /\ ui' = Rendered("info", FALSE, None,
                           "Please select a City on the main dashboard to run Module 2.")
         /\ UNCHANGED <<session, call>>
    ELSE IF cache_hit
    THEN /\ ui' = Rendered("success", TRUE, session.analytics_data, "")
         /\ UNCHANGED <<session, call>>
    ELSE LET returned == analyze_accident_data(FIXED_CSV_PATH)
         IN /\ call' = returned
            /\ IF is_analysis_result(returned.value)
               THEN /\ session' = [session EXCEPT !.analytics_data = returned.value]
                    /\ ui' = Rendered("success", FALSE, returned.value, "")
               ELSE /\ ui' = Rendered("error", FALSE, None,
                                      "Module 2 Error: " \o returned.value.val)
                    /\ UNCHANGED session

-----------------------------------------------------------------------------
(* The inputs: the CSV file and the session a call finds *)

MaxRows == 3

Columns == {"Location", "Date", "Time", "City", "accidents"}

\* The records a file is made of.  Locations: two unlisted texts, one listed
\* for Bengaluru only, one listed for Bengaluru and for Vijayawada, a third
\* unlisted text, a missing one.  Cities: exact, padded and in lower case,
\* inside a longer name, missing.  Dates: three weekdays and a text that is no
\* date.  Times: HH:MM, H:MM, an hour that does not exist, missing.
RowPool ==
    { [Location |-> "A", City |-> "Hyderabad", Date |-> "2024-01-01",
       Time |-> "08:30", accidents |-> 5],
      [Location |-> "B", City |-> " hyderabad ", Date |-> "2024-01-02",
       Time |-> "17:05", accidents |-> 10],
      [Location |-> "Silk Board", City |-> "Greater Bengaluru Metro", Date |-> "2024-01-03",
       Time |-> "8:45", accidents |-> 3],
      [Location |-> "MG Road", City |-> "Hyderabad", Date |-> "2024-01-01",
       Time |-> "25:00", accidents |-> 12],
      [Location |-> "X", City |-> NaN, Date |-> "not a date",
       Time |-> NaN, accidents |-> 2],
      [Location |-> NaN, City |-> "Hyderabad", Date |-> "2024-01-02",
       Time |-> "23:59", accidents |-> 6] }

Project(r, columns) == [c \in columns |-> r[c]]

RECURSIVE SeqsUpTo(_, _)
SeqsUpTo(S, n) ==
    IF n = 0 THEN {<<>>}
    ELSE LET shorter == SeqsUpTo(S, n - 1)
         IN shorter \cup {Append(s, x) : s \in {t \in shorter : Len(t) = n - 1}, x \in S}

\* no file; or a file with any of the columns and up to n records
Datasets(n) ==
    {[exists |-> FALSE, columns |-> {}, rows |-> <<>>]}
    \cup UNION {
           {[exists |-> TRUE, columns |-> columns, rows |-> rows] :
              rows \in IF columns = {} THEN {<<>>}
                       ELSE SeqsUpTo({Project(r, columns) : r \in RowPool}, n)} :
           columns \in SUBSET Columns }

\* st.session_state as a direct call of the functions of analytics.py may find
\* it: no selected city, an empty one, or one of the selector's values
CallSessions ==
    {[hazard_data |-> None, analytics_data |-> None]}
    \cup {[hazard_data |-> None, analytics_data |-> None, selected_city |-> c] :
            c \in {""} \cup {JURISDICTIONS[i] : i \in 1..Len(JURISDICTIONS)}}

NoMap == [called |-> FALSE, location |-> "", city |-> ""]

\* no run of app.py under way; nothing rendered by complaint_module
NoEvent == [kind |-> "none", city |-> "", outcome |-> None]
NotRunning == [tab |-> "idle", event |-> NoEvent]
NoComplaint ==
    [kind |-> "none", city |-> "", subject |-> "", body |-> "", letter |-> ""]

-----------------------------------------------------------------------------
(* SpecAnalyze: analyze_accident_data called on every file and session *)

InitAnalyze ==
    /\ csv \in Datasets(MaxRows)
    /\ session \in CallSessions
    /\ call = NoCall
    /\ mapped = NoMap
    /\ ui = NotRendered
    /\ earlier = NoCall
    /\ pc = NotRunning
    /\ complaint = NoComplaint

AnalyzeCall ==
    /\ call' = analyze_accident_data(FIXED_CSV_PATH)
    /\ UNCHANGED <<csv, session, mapped, ui, earlier, pc, complaint>>

NextAnalyze == AnalyzeCall

SpecAnalyze == InitAnalyze /\ [][NextAnalyze]_vars

-----------------------------------------------------------------------------
(* SpecModule: analytics_module and analyze_accident_data called, in any    *)
(* order, on every file and session                                         *)

MaxModuleRows == 2

InitModule ==
    /\ csv \in Datasets(MaxModuleRows)
    /\ session \in CallSessions
    /\ call = NoCall
    /\ mapped = NoMap
    /\ ui = NotRendered
    /\ earlier = NoCall
    /\ pc = NotRunning
    /\ complaint = NoComplaint

ModuleRun ==
    /\ analytics_module
    /\ UNCHANGED <<csv, mapped, earlier, pc, complaint>>

NextModule == AnalyzeCall \/ ModuleRun

SpecModule == InitModule /\ [][NextModule]_vars

-----------------------------------------------------------------------------
(* SpecMap: _map_location_to_city called on location texts *)

LocationTexts ==
    {hyderabad_locations[i] : i \in 1..Len(hyderabad_locations)}
    \cup {bengaluru_locations[i] : i \in 1..Len(bengaluru_locations)}
    \cup {chennai_locations[i] : i \in 1..Len(chennai_locations)}
    \cup {vijayawada_locations[i] : i \in 1..Len(vijayawada_locations)}
    \cup {"Near Silk Board Junction", "  Madhapur  ", "madhapur", "Electronic City Phase 1",
          "Outer Ring Road", "T Nagar and Anna Salai", "Benz Circle to Gachibowli",
          "Station Road", "", NaN}

InitMap ==
    /\ csv = [exists |-> FALSE, columns |-> {}, rows |-> <<>>]
    /\ session \in CallSessions
    /\ call = NoCall
    /\ mapped = NoMap
    /\ ui = NotRendered
    /\ earlier = NoCall
    /\ pc = NotRunning
    /\ complaint = NoComplaint

MapCall(location) ==
    /\ mapped' = [called |-> TRUE, location |-> location,
                  city |-> _map_location_to_city(location)]
    /\ UNCHANGED <<csv, session, call, ui, earlier, pc, complaint>>

NextMap == \E location \in LocationTexts : MapCall(location)

SpecMap == InitMap /\ [][NextMap]_vars

-----------------------------------------------------------------------------
(* The vocabulary of the properties, stated on the file and the session     *)
(* themselves and not on what the code computes from them                   *)

\* p occurs in s
Contains(s, p) == \E i \in 0..(Len(s) - Len(p)) : SubSeq(s, i + 1, i + Len(p)) = p
StartsWith(s, p) == Len(p) <= Len(s) /\ SubSeq(s, 1, Len(p)) = p

RowIds == 1..Len(csv.rows)

\* no city context: the selected city is absent, empty or the sentinel
CityUnselected ==
    \/ "selected_city" \notin DOMAIN session
    \/ session.selected_city \in {"", UNSELECTED}

\* a call that gets as far as the rows: a city, the file, its two required columns
Analyzable ==
    /\ ~CityUnselected
    /\ csv.exists
    /\ {"Location", "Date"} \subseteq csv.columns

\* the explicit city of a record, or the city derived from its Location
RowCity(i) ==
    IF "City" \in csv.columns THEN csv.rows[i].City
    ELSE _map_location_to_city(csv.rows[i].Location)

\* the record's city, trimmed, contains the requested city, whatever the case
MatchesCity(i) ==
    RowCity(i) # NaN /\ Contains(lower(strip(RowCity(i))), lower(session.selected_city))

MatchedRows == {i \in RowIds : MatchesCity(i)}

\* the matching records that normalisation keeps
Survives(i) == csv.rows[i].Location # NaN /\ to_datetime(csv.rows[i].Date) # NaT
CountedRows == {i \in MatchedRows : Survives(i)}

RECURSIVE SumAccidents(_)
SumAccidents(S) ==
    IF S = {} THEN 0
    ELSE LET i == CHOOSE j \in S : TRUE IN csv.rows[i].accidents + SumAccidents(S \ {i})

\* the incident count of a set of records: summed 'accidents', or the row count
Measure(S) == IF "accidents" \in csv.columns THEN SumAccidents(S) ELSE Cardinality(S)
AtLocation(S, l) == {i \in S : csv.rows[i].Location = l}

IsResult == call.called /\ call.value.type = "dict"
IsError == call.called /\ call.value.type = "str" /\ call.df = None
result == call.value.val

-----------------------------------------------------------------------------
(* C1 *)

\* C1 (as stated): for a requested city that matches at least one row, the call
\* returns a result whose total_accidents is the row count (or the sum of
\* 'accidents') over exactly the rows whose city contains the requested city.
C1_TotalOverMatchedRows ==
    (call.called /\ Analyzable /\ MatchedRows # {}) =>
        (IsResult /\ result.total_accidents = Measure(MatchedRows))

\* C1 (amended): the total is the row count (or the sum of 'accidents') over
\* exactly the matching rows whose Date parses and whose Location is present,
\* and a result is returned whenever there is such a row.
C1_TotalOverCountedRows ==
    (call.called /\ Analyzable /\ CountedRows # {}) =>
        (IsResult /\ result.total_accidents = Measure(CountedRows))

\* a result over a file with a row of another city and a matching row that
\* normalisation drops
C1_Witness ==
    /\ IsResult /\ Analyzable
    /\ CountedRows # {} /\ CountedRows # MatchedRows /\ MatchedRows # RowIds
    /\ "accidents" \in csv.columns
    /\ result.total_accidents = Measure(CountedRows)

-----------------------------------------------------------------------------
(* C2 *)

KnownCities == <<"Hyderabad", "Bengaluru", "Chennai", "Vijayawada">>
ListedLocations(city) ==
    CASE city = "Hyderabad" -> hyderabad_locations
      [] city = "Bengaluru" -> bengaluru_locations
      [] city = "Chennai" -> chennai_locations
      [] city = "Vijayawada" -> vijayawada_locations

\* the Location text holds a substring listed for the city
ListedFor(text, city) ==
    \E k \in 1..Len(ListedLocations(city)) : Contains(text, ListedLocations(city)[k])

InFiltered(i) == \E k \in 1..Len(call.filtered) : call.filtered[k] = i - 1
Filtering == call.called /\ \E k \in 1..Len(call.steps) : call.steps[k] = "filter"

\* C2, first part: a record is in the filtered set exactly if its city,
\* trimmed, contains the requested city as a case-insensitive substring.
C2_FilteredIffCityMatches ==
    Filtering => \A i \in RowIds : InFiltered(i) <=> MatchesCity(i)

\* C2 (as stated): the first part, and in particular: without a City column a
\* record at "Silk Board" is included when Bengaluru is requested, and a record
\* whose Location matches a substring of a known city other than the requested
\* one is excluded.
C2_FilterByCity ==
    Filtering =>
        \A i \in RowIds :
            /\ InFiltered(i) <=> MatchesCity(i)
            /\ ("City" \notin csv.columns /\ csv.rows[i].Location = "Silk Board"
                  /\ session.selected_city = "Bengaluru") => InFiltered(i)
            /\ ("City" \notin csv.columns
                  /\ \E k \in 1..Len(KnownCities) :
                        /\ KnownCities[k] # session.selected_city
                        /\ ListedFor(Str(csv.rows[i].Location), KnownCities[k]))
               => ~InFiltered(i)

-----------------------------------------------------------------------------
(* C3 *)

\* C3: with the selected city absent, empty or "Select City...", the call
\* returns (message, None) and runs no statement that loads or reads the file.
C3_NoCityNoLoad ==
    (call.called /\ CityUnselected) =>
        (IsError /\ call.value.val = NO_CITY_MESSAGE /\ call.steps = <<>>)

\* the call made with the sentinel selected and a file with records in place
C3_Witness ==
    /\ call.called
    /\ "selected_city" \in DOMAIN session /\ session.selected_city = UNSELECTED
    /\ csv.exists /\ Len(csv.rows) > 0
    /\ IsError

-----------------------------------------------------------------------------
(* C4 *)

\* C4: when no row is left to aggregate (no row in the file, none matching the
\* city, or every matching row dropped for its Date or Location) the call
\* returns an error value, never a result dictionary.
C4_NothingToAggregateIsError ==
    (call.called /\ Analyzable /\ CountedRows = {}) => (IsError /\ ~IsResult)

\* every matching row was dropped for its unparsable Date
C4_Witness ==
    /\ call.called /\ Analyzable
    /\ MatchedRows # {} /\ CountedRows = {}
    /\ \A i \in MatchedRows : to_datetime(csv.rows[i].Date) = NaT /\ csv.rows[i].Location # NaN
    /\ IsError

-----------------------------------------------------------------------------
(* C5 *)

Ran(step) == \E k \in 1..Len(call.steps) : call.steps[k] = step
Aggregated ==
    Ran("total_accidents") \/ Ran("high_risk_zone") \/ Ran("peak_time")
    \/ Ran("bar_chart") \/ Ran("pie_chart")

\* an error of a kind of its own: not the generic failure, and none of the
\* other specific errors
MissingColumnsError ==
    /\ IsError
    /\ ~StartsWith(call.value.val, GENERIC_FAILURE)
    /\ call.value.val \notin {NO_CITY_MESSAGE, NOT_FOUND_MESSAGE}
    /\ \A i \in 1..Len(JURISDICTIONS) : call.value.val # no_data_message(JURISDICTIONS[i])

\* C5 (as stated): a file without the Date column (or without the Location
\* column) yields the MissingColumns error, told apart from the generic
\* analysis failure, before any aggregate is computed.  Stated here of the
\* files that have rows of the requested city, where no other error applies.
C5_MissingColumnsError ==
    (/\ call.called /\ ~CityUnselected /\ csv.exists
     /\ ~({"Location", "Date"} \subseteq csv.columns)
     /\ Len(call.filtered) > 0)
    => (MissingColumnsError /\ ~Aggregated)

\* what does hold of such a file: an error, before any aggregate is computed
C5_MissingColumnIsSomeError ==
    (/\ call.called /\ ~CityUnselected /\ csv.exists
     /\ ~({"Location", "Date"} \subseteq csv.columns))
    => (IsError /\ ~Aggregated)

-----------------------------------------------------------------------------
(* C7 *)

CountedLocations == {csv.rows[i].Location : i \in CountedRows}

\* C7: over the normalised filtered rows the total is the sum of 'accidents'
\* and the highest-incidence location has the largest per-location sum; without
\* the column the total is the row count and the location is a most frequent one.
C7_TotalAndHighRiskZone ==
    (IsResult /\ Analyzable) =>
        /\ result.total_accidents = Measure(CountedRows)
        /\ result.high_risk_zone \in CountedLocations
        /\ \A l \in CountedLocations :
              Measure(AtLocation(CountedRows, l))
                 <= Measure(AtLocation(CountedRows, result.high_risk_zone))

\* accidents [5, 10] at two locations [A, B]: total 15, zone B
C7_Witness ==
    /\ IsResult /\ Analyzable /\ "accidents" \in csv.columns
    /\ Len(csv.rows) = 2 /\ CountedRows = {1, 2}
    /\ csv.rows[1].Location = "A" /\ csv.rows[1].accidents = 5
    /\ csv.rows[2].Location = "B" /\ csv.rows[2].accidents = 10
    /\ result.total_accidents = 15 /\ result.high_risk_zone = "B"

\* locations [A, A, B] without the column: total 3, zone A
C7_WitnessRowCount ==
    /\ IsResult /\ Analyzable /\ "accidents" \notin csv.columns
    /\ Len(csv.rows) = 3 /\ CountedRows = {1, 2, 3}
    /\ csv.rows[1].Location = "A" /\ csv.rows[2].Location = "A"
    /\ csv.rows[3].Location = "B"
    /\ result.total_accidents = 3 /\ result.high_risk_zone = "A"

-----------------------------------------------------------------------------
(* C8 *)

UNAVAILABLE == "N/A (Time data missing in CSV)"

\* the integer hours of the surviving rows whose Time is a valid HH:MM
ValidHourRows ==
    IF "Time" \in csv.columns THEN {i \in CountedRows : ~to_hour(csv.rows[i].Time).nan} ELSE {}
HourOf(i) == to_hour(csv.rows[i].Time).h
MostFrequentHours ==
    LET rows == ValidHourRows
        hours == {HourOf(i) : i \in rows}
        frequency == [h \in hours |-> Cardinality({i \in rows : HourOf(i) = h})]
    IN {h \in hours : h \in 0..23 /\ \A g \in hours : frequency[g] <= frequency[h]}
Window(h) == ToString(h) \o ":00 - " \o ToString(h + 1) \o ":00"

\* C8 (as stated): with a valid hour among the surviving rows, peak_time is
\* "{h}:00 - {h+1}:00" for the integer hour h that occurs most often; with none
\* (or no Time column) it is the "unavailable" marker, and a result is returned.
C8_PeakTime ==
    (call.called /\ Analyzable /\ CountedRows # {}) =>
        /\ IsResult
        /\ IF ValidHourRows = {}
           THEN result.peak_time = UNAVAILABLE
           ELSE \E h \in MostFrequentHours : result.peak_time = Window(h)

\* what does hold: the hour is the most frequent one, written as an integer
\* when every surviving row has a valid Time and with ".0" when one has not
C8_PeakTimeAsFormatted ==
    (call.called /\ Analyzable /\ CountedRows # {}) =>
        /\ IsResult
        /\ IF ValidHourRows = {}
           THEN result.peak_time = UNAVAILABLE
           ELSE \E h \in MostFrequentHours :
                   result.peak_time =
                      IF ValidHourRows = CountedRows THEN Window(h)
                      ELSE ToString(h) \o ".0:00 - " \o ToString(h + 1) \o ".0:00"

-----------------------------------------------------------------------------
(* C9 *)

RECURSIVE SumValues(_)
SumValues(series) == IF Len(series) = 0 THEN 0 ELSE Head(series)[2] + SumValues(Tail(series))

bar_chart == result.charts.bar_chart_base64
pie_chart == result.charts.pie_chart_base64

\* C9 (as stated): rows without a valid Time are left out of the peak hour
\* only.  They count in the total, in the highest-incidence location and in
\* both charts: the first bar is the highest-incidence location, every
\* location's bar (there are at most five locations here) is its incident
\* count, and the bars and the weekday slices each add up to the total.
C9_TimelessRowsStayInCharts ==
    (IsResult /\ Analyzable) =>
        /\ result.total_accidents = Measure(CountedRows)
        /\ Len(bar_chart) > 0
        /\ bar_chart[1][1] = result.high_risk_zone
        /\ Cardinality(CountedLocations) <= 5 =>
              /\ \A l \in CountedLocations :
                    \E k \in 1..Len(bar_chart) :
                        bar_chart[k] = <<l, Measure(AtLocation(CountedRows, l))>>
              /\ SumValues(bar_chart) = result.total_accidents
        /\ SumValues(pie_chart) = result.total_accidents

\* what does hold: the charts are drawn from the rows that have a valid Time
\* (from all surviving rows when the file has no Time column)
ChartRows == IF "Time" \in csv.columns THEN ValidHourRows ELSE CountedRows
C9_ChartsOverRowsWithTime ==
    (IsResult /\ Analyzable) =>
        /\ SumValues(pie_chart) = Measure(ChartRows)
        /\ Cardinality(CountedLocations) <= 5 => SumValues(bar_chart) = Measure(ChartRows)

-----------------------------------------------------------------------------
(* C10 *)

\* the first known city, in the order Hyderabad, Bengaluru, Chennai,
\* Vijayawada, with a listed substring in the text; 0 when there is none
FirstListed(text) ==
    IF \E k \in 1..Len(KnownCities) : ListedFor(text, KnownCities[k])
    THEN CHOOSE k \in 1..Len(KnownCities) :
            /\ ListedFor(text, KnownCities[k])
            /\ \A j \in 1..(k - 1) : ~ListedFor(text, KnownCities[j])
    ELSE 0

\* C10: the result is the first city, in the fixed order, one of whose
\* substrings the location text contains literally; with none, the selected
\* city when there is one other than the sentinel, and "Unknown" otherwise.
C10_FirstListedCityOrFallback ==
    mapped.called =>
        LET text == Str(mapped.location)
        IN mapped.city =
              IF FirstListed(text) > 0 THEN KnownCities[FirstListed(text)]
              ELSE IF CityUnselected THEN "Unknown"
              ELSE session.selected_city

\* "MG Road", listed for Bengaluru and for Vijayawada, maps to Bengaluru
C10_Witness ==
    /\ mapped.called /\ mapped.location = "MG Road" /\ mapped.city = "Bengaluru"
    /\ ListedFor("MG Road", "Vijayawada")

\* an unlisted text falls back to the selected city
C10_WitnessFallback ==
    /\ mapped.called /\ mapped.location = "Station Road"
    /\ ~CityUnselected /\ mapped.city = session.selected_city

-----------------------------------------------------------------------------
(* C6 *)

\* a failure of the analysis: no city context, no file, no or missing columns,
\* no row of the city, no row left after normalisation
Failure ==
    \/ CityUnselected
    \/ ~csv.exists
    \/ ~({"Location", "Date"} \subseteq csv.columns)
    \/ CountedRows = {}

CacheIsNoneOrResult ==
    \/ session.analytics_data = None
    \/ /\ session.analytics_data.type = "dict"
       /\ "high_risk_zone" \in DOMAIN session.analytics_data.val

\* C6: every call returns a pair, (result, frame) or (error description,
\* None): no exception leaves the function; every failure is returned as
\* (error description, None); and the session cache never holds an error.
C6_ErrorsAreValues ==
    /\ call.called =>
          \/ IsError
          \/ IsResult /\ call.df.type = "DataFrame"
    /\ (call.called /\ Failure) => IsError
    /\ CacheIsNoneOrResult
    /\ ui.kind = "error" => (IsError /\ session.analytics_data = None)

\* analytics_module ran on a file without the Date column: the KeyError came
\* back as an error value, was shown, and the cache was left empty
C6_Witness ==
    /\ ui.kind = "error"
    /\ csv.exists /\ "Date" \notin csv.columns
    /\ IsError /\ StartsWith(call.value.val, GENERIC_FAILURE)
    /\ session.analytics_data = None

-----------------------------------------------------------------------------
(* C11 *)

\* C11 (as stated): the lookup table does not overlap.  No location text holds
\* a substring listed for one city and a substring listed for another, so the
\* city returned is the one listed city whatever the order of the four tests.
C11_TableNonOverlapping ==
    mapped.called =>
        LET text == Str(mapped.location)
        IN /\ \A j, k \in 1..Len(KnownCities) :
                 (ListedFor(text, KnownCities[j]) /\ ListedFor(text, KnownCities[k]))
                    => j = k
           /\ \A k \in 1..Len(KnownCities) :
                 ListedFor(text, KnownCities[k]) => mapped.city = KnownCities[k]

-----------------------------------------------------------------------------
(* SpecRepeat: analyze_accident_data called again and again on the same     *)
(* file and session, with runs of analytics_module (which fill the cache)   *)
(* and calls of _map_location_to_city in between                            *)

MaxRepeatRows == 2

RepeatTexts == {"MG Road", "Station Road"}

\* no file, or a file that has the two columns the analysis needs
RepeatFiles ==
    {f \in Datasets(MaxRepeatRows) : ~f.exists \/ {"Location", "Date"} \subseteq f.columns}

\* no selected city, the sentinel, a city with records, one listed in the
\* lookup table, one without records
RepeatSessions ==
    {ss \in CallSessions :
        "selected_city" \in DOMAIN ss =>
            ss.selected_city \in {UNSELECTED, "Hyderabad", "Bengaluru", "Mumbai"}}

InitRepeat ==
    /\ csv \in RepeatFiles
    /\ session \in RepeatSessions
    /\ call = NoCall
    /\ mapped = NoMap
    /\ ui = NotRendered
    /\ earlier = NoCall
    /\ pc = NotRunning
    /\ complaint = NoComplaint

RepeatCall ==
    /\ earlier' = call
    /\ call' = analyze_accident_data(FIXED_CSV_PATH)
    /\ UNCHANGED <<csv, session, mapped, ui, pc, complaint>>

RepeatModuleRun ==
    /\ analytics_module
    /\ earlier' = IF ui'.kind \in {"success", "error"} /\ ~ui'.cached THEN call ELSE earlier
    /\ UNCHANGED <<csv, mapped, pc, complaint>>

RepeatMap(location) ==
    /\ mapped' = [called |-> TRUE, location |-> location,
                  city |-> _map_location_to_city(location)]
    /\ UNCHANGED <<csv, session, call, ui, earlier, pc, complaint>>

NextRepeat ==
    \/ RepeatCall
    \/ RepeatModuleRun
    \/ \E location \in RepeatTexts : RepeatMap(location)

SpecRepeat == InitRepeat /\ [][NextRepeat]_vars

-----------------------------------------------------------------------------
(* C12 *)

-----------------------------------------------------------------------------
(* st.session_state and Python dictionaries *)

\* d.get(k, default)
Get(d, k, default) == IF k \in DOMAIN d THEN d[k] ELSE default

\* d[k] = v
SetKey(d, k, v) == [x \in (DOMAIN d) \cup {k} |-> IF x = k THEN v ELSE d[x]]

\* the truth value of a session slot that holds None or a dictionary
truthy(v) == v.type = "dict" /\ DOMAIN v.val # {}

-----------------------------------------------------------------------------
(* vision_gemini.py *)

\* json.loads(response.text): the schema's five keys, or fewer of them
GeminiResponses ==
    { [location_estimate |-> "MG Road", potholes |-> 2, broken_lights |-> 1,
       large_cracks |-> 1, ai_confidence_summary |-> "Two potholes and one large crack."],
      [potholes |-> 4] }

\* what a click on "Analyze for Hazards" meets: an image that cannot be opened,
\* a failing API call, or a response
GeminiOutcomes ==
    {[kind |-> "bad_image"], [kind |-> "api_error"]}
    \cup {[kind |-> "response", response |-> r] : r \in GeminiResponses}

\* lines 77-82
final_output(hazard_data) ==
    [potholes |-> Get(hazard_data, "potholes", 0) + Get(hazard_data, "large_cracks", 0),
     broken_lights |-> Get(hazard_data, "broken_lights", 0),
     location |-> Get(hazard_data, "location_estimate", "Location Unknown"),
     summary |-> Get(hazard_data, "ai_confidence_summary", "Analysis complete.")]

analyze_image_with_gemini(outcome) ==
    CASE outcome.kind = "bad_image" -> [error |-> "Failed to process image file"]
      [] outcome.kind = "api_error" -> [error |-> "Gemini API error"]
      [] outcome.kind = "response" -> final_output(outcome.response)

\* the result of the analysis stored whether or not it is an error
vision_module_unchecked(client) ==
    IF ~client THEN UNCHANGED session
    ELSE
    LET initialised == IF "show_camera" \in DOMAIN session THEN session
                       ELSE SetKey(session, "show_camera", FALSE)
        toggled == IF pc.event.kind = "toggle_camera"
                   THEN [initialised EXCEPT !.show_camera = ~@]
                   ELSE initialised
    IN IF pc.event.kind = "analyze"
       THEN session' = SetKey(SetKey(toggled, "hazard_data",
                                     PyDict(analyze_image_with_gemini(pc.event.outcome))),
                              "image_processed", TRUE)
       ELSE session' = toggled

\* vision_module, in a run started by the interaction pc.event; client is
\* whether get_gemini_client() returned a client
vision_module(client) ==
    IF ~client THEN UNCHANGED session
    ELSE
    LET initialised == IF "show_camera" \in DOMAIN session THEN session
                       ELSE SetKey(session, "show_camera", FALSE)
        toggled == IF pc.event.kind = "toggle_camera"
                   THEN [initialised EXCEPT !.show_camera = ~@]
                   ELSE initialised
    IN IF pc.event.kind = "analyze"
       THEN LET hazard_data == analyze_image_with_gemini(pc.event.outcome)
            IN IF "error" \in DOMAIN hazard_data
               THEN session' = toggled
               ELSE session' = SetKey(SetKey(toggled, "hazard_data", PyDict(hazard_data)),
                                      "image_processed", TRUE)
       ELSE session' = toggled

-----------------------------------------------------------------------------
(* complaint.py *)

\* f"{x}" of a count, or the default text when the key is absent
count_text(d, k, default) == IF k \in DOMAIN d THEN ToString(d[k]) ELSE default

\* line 128
subject_text(potholes_count, high_risk_zone, city) ==
    "URGENT: Hazardous Road Conditions (Potholes: " \o potholes_count \o ") on "
    \o high_risk_zone \o " (" \o city \o ")"

\* lines 131-142
complaint_body_text(high_risk_zone, city, hazard_summary, potholes_count, total_accidents) ==
    "\nThis letter serves to formally report critical road hazards observed on "
    \o high_risk_zone \o " in " \o city \o ".\n\nVisual Findings:\n"
    \o hazard_summary \o " \nOur system detected " \o potholes_count
    \o " significant hazards (potholes) in the uploaded image.\n\nStatistical Urgency:\n"
    \o "This section of road is a proven high-risk zone, with records showing a total of "
    \o total_accidents
    \o " accidents. Immediate repair is necessary to prevent further incidents.\n\n"
    \o "We urge the Municipal Corporation to prioritize the repair of this section.\n"

\* lines 37-60: generate_final_letter's text
final_letter_content(subject, body, analytics_data) ==
    "\n[Your Name/Organization Name - e.g., A Concerned Resident]\n[Your Address]\n"
    \o "[Your City, Postal Code]\n[Your Email Address]\n[Your Phone Number]\n\n"
    \o "December 06, 2025\n\nThe Commissioner\nMunicipal Corporation\n"
    \o Get(analytics_data, "city", "Local City")
    \o "\n\nSUBJECT: " \o subject \o "\n\nRespected Commissioner,\n" \o body
    \o "\n\nSincerely,\nA Concerned Resident\n"

ComplaintShown(kind, city, subject, body, letter) ==
    [kind |-> kind, city |-> city, subject |-> subject, body |-> body, letter |-> letter]

\* line 116: not hazard_data or not analytics_data
has_inputs == truthy(session.hazard_data) /\ truthy(session.analytics_data)

\* complaint_module, in a run started by the interaction pc.event.  The form
\* is submitted as it was filled in: with the subject and the body unedited.
complaint_module ==
    IF ~has_inputs
    THEN /\ complaint' = ComplaintShown("warning", "", "", "", "")
         /\ UNCHANGED session
    ELSE
    LET hazard_data == session.hazard_data.val
        analytics_data == session.analytics_data.val
        city == Get(analytics_data, "city", "Unknown City")
        high_risk_zone == Get(analytics_data, "high_risk_zone", "Unknown Location")
        total_accidents == count_text(analytics_data, "total_accidents", "N/A")
        potholes_count == count_text(hazard_data, "potholes", "N/A")
        hazard_summary == Get(hazard_data, "ai_summary", "Road condition summary unavailable.")
        subject == subject_text(potholes_count, high_risk_zone, city)
        body == strip(complaint_body_text(high_risk_zone, city, hazard_summary,
                                          potholes_count, total_accidents))
    IN IF pc.event.kind = "submit"
       THEN LET letter == final_letter_content(subject, body, analytics_data)
            IN /\ session' = SetKey(session, "final_letter_content", letter)
               /\ complaint' = ComplaintShown("letter", city, subject, body, strip(letter))
       ELSE /\ UNCHANGED session
            /\ complaint' =
                 IF "final_letter_content" \in DOMAIN session
                 THEN ComplaintShown("last_letter", city, subject, body,
                                     strip(session.final_letter_content))
                 ELSE ComplaintShown("form", city, subject, body, "")

-----------------------------------------------------------------------------
(* Spec: the session of app.py.  Every interaction of the user reruns the   *)
(* script: the selector's value is stored, then the three modules run in    *)
(* the order of the tabs.                                                   *)

MaxAppRows == 2

\* the records of the application's file: Hyderabad, and Bengaluru by name or
\* by its listed location
AppRowPool ==
    {r \in RowPool : r.Location \in {"A", "Silk Board"}}

AppFiles ==
    {[exists |-> FALSE, columns |-> {}, rows |-> <<>>]}
    \cup {[exists |-> TRUE, columns |-> Columns, rows |-> rows] :
            rows \in SeqsUpTo(AppRowPool, MaxAppRows)}

\* what the user does on the page the last run rendered
Select(city) == [kind |-> "select", city |-> city, outcome |-> None]
Events ==
    {Select(JURISDICTIONS[i]) : i \in 1..Len(JURISDICTIONS)}
    \cup {[kind |-> "toggle_camera", city |-> "", outcome |-> None]}
    \cup {[kind |-> "analyze", city |-> "", outcome |-> o] : o \in GeminiOutcomes}
    \cup {[kind |-> "submit", city |-> "", outcome |-> None]}

\* app.py lines 14-38 of the first run: the three slots, the selector at index 0
Init ==
    /\ csv \in AppFiles
    /\ session = [hazard_data |-> None, analytics_data |-> None, selected_city |-> UNSELECTED]
    /\ call = NoCall
    /\ mapped = NoMap
    /\ ui = NotRendered
    /\ earlier = NoCall
    /\ pc = [tab |-> "vision", event |-> NoEvent]
    /\ complaint = NoComplaint

\* an interaction starts a run; lines 30-38 store the selector's value
Interact(event) ==
    /\ pc.tab = "idle"
    /\ event.kind = "submit" => complaint.kind \in {"form", "letter", "last_letter"}
    /\ session' = IF event.kind = "select"
                  THEN [session EXCEPT !.selected_city = event.city]
                  ELSE session
    /\ pc' = [tab |-> "vision", event |-> event]
    /\ UNCHANGED <<csv, call, mapped, ui, earlier, complaint>>

\* line 55
VisionTab(client) ==
    /\ pc.tab = "vision"
    /\ vision_module(client)
    /\ pc' = [pc EXCEPT !.tab = "analytics"]
    /\ UNCHANGED <<csv, call, mapped, ui, earlier, complaint>>

\* line 61
AnalyticsTab ==
    /\ pc.tab = "analytics"
    /\ analytics_module
    /\ pc' = [pc EXCEPT !.tab = "complaint"]
    /\ UNCHANGED <<csv, mapped, earlier, complaint>>

\* line 67
ComplaintTab ==
    /\ pc.tab = "complaint"
    /\ complaint_module
    /\ pc' = NotRunning
    /\ UNCHANGED <<csv, call, mapped, ui, earlier>>

Next ==
    \/ \E event \in Events : Interact(event)
    \/ \E client \in BOOLEAN : VisionTab(client)
    \/ AnalyticsTab
    \/ ComplaintTab

Spec == Init /\ [][Next]_vars

-----------------------------------------------------------------------------
(* C13 *)

\* the cache holds a result and its city is the city now selected
CachedCityIsSelected ==
    /\ session.analytics_data # None
    /\ session.analytics_data.val.city = session.selected_city

\* a step of analytics_module in a run of the script
AnalyticsStep == pc.tab = "analytics" /\ pc'.tab = "complaint"

\* C13: in every run of analytics_module the cached result is reused, and the
\* pipeline not invoked, exactly when the cached city is the selected city;
\* a successful aggregation leaves in the slot the new result and nothing
\* else; a failed one leaves the slot as it was.
C13_CacheSlot ==
    [][AnalyticsStep =>
         /\ ui'.cached <=> CachedCityIsSelected
         /\ ui'.cached =>
               /\ session' = session /\ call' = call
               /\ ui'.data = session.analytics_data
         /\ (~CachedCityIsSelected /\ ~CityUnselected) =>
               /\ call' = analyze_accident_data(FIXED_CSV_PATH)
               /\ IF call'.value.type = "dict"
                  THEN /\ session' = [session EXCEPT !.analytics_data = call'.value]
                       /\ session'.analytics_data.val.city = session.selected_city
                  ELSE session' = session
         /\ CityUnselected => (session' = session /\ call' = call)
      ]_vars

\* the slot held Hyderabad's result (the form on the page was rendered from
\* it), Bengaluru was selected, and the run of analytics_module has replaced it
C13_Witness ==
    /\ pc.tab = "complaint"
    /\ ui.kind = "success" /\ ~ui.cached
    /\ session.analytics_data # None
    /\ session.analytics_data.val.city = "Bengaluru"
    /\ session.analytics_data = call.value
    /\ complaint.kind = "form" /\ complaint.city = "Hyderabad"

\* a failed aggregation (no record of Mumbai) left Hyderabad's result in place
C13_WitnessFailure ==
    /\ pc.tab = "complaint"
    /\ ui.kind = "error"
    /\ session.selected_city = "Mumbai"
    /\ session.analytics_data # None
    /\ session.analytics_data.val.city = "Hyderabad"

-----------------------------------------------------------------------------
(* C14 *)

\* complaint_module has rendered the form, or built or shown again a letter,
\* in the run that has just ended
FormRendered == pc.tab = "idle" /\ complaint.kind \in {"form", "letter", "last_letter"}

\* C14 (as stated): whenever complaint_module renders the form or builds a
\* letter, the analysis it uses is the one of the city now selected: its city
\* is the selected city, and the letter just built names that city.
C14_ComplaintCityIsSelected ==
    FormRendered =>
        /\ complaint.city = session.selected_city
        /\ session.analytics_data.val.city = session.selected_city

\* what does hold: the form and the letter are of the city of the cached result
C14_ComplaintCityIsCachedCity ==
    FormRendered => complaint.city = session.analytics_data.val.city

-----------------------------------------------------------------------------
(* C15 *)

\* the slots hold None or what a successful analysis produced; and the run
\* that has just ended rendered the form (or a letter) if both are there, and
\* the warning, with no letter in the session, if one is missing
SlotsAndComplaint ==
    /\ session.hazard_data # None =>
          /\ session.hazard_data.type = "dict"
          /\ "error" \notin DOMAIN session.hazard_data.val
          /\ \E r \in GeminiResponses : session.hazard_data.val = final_output(r)
          /\ "image_processed" \in DOMAIN session
    /\ CacheIsNoneOrResult
    /\ pc.tab = "idle" =>
          IF session.hazard_data # None /\ session.analytics_data # None
          THEN complaint.kind \in {"form", "letter", "last_letter"}
          ELSE /\ complaint.kind = "warning"
               /\ complaint.letter = "" /\ complaint.subject = ""
               /\ "final_letter_content" \notin DOMAIN session

\* the slots are written by the successful analyses only
SlotWrites ==
    /\ session'.hazard_data # session.hazard_data =>
          /\ pc.tab = "vision" /\ pc.event.kind = "analyze"
          /\ pc.event.outcome.kind = "response"
          /\ session'.hazard_data = PyDict(final_output(pc.event.outcome.response))
    /\ session'.analytics_data # session.analytics_data =>
          /\ pc.tab = "analytics"
          /\ call'.value.type = "dict" /\ call'.df.type = "DataFrame"
          /\ session'.analytics_data = call'.value

\* C15: the form or a letter is rendered only after a vision analysis and an
\* aggregation succeeded in the session: 'hazard_data' is written only by a
\* vision analysis without "error", 'analytics_data' only by a successful
\* aggregation, and with one of them missing the module shows the warning and
\* produces nothing.
C15_FormNeedsBothAnalyses == []SlotsAndComplaint /\ [][SlotWrites]_vars

\* a letter was built, from the two stored results
C15_Witness ==
    /\ pc.tab = "idle" /\ complaint.kind = "letter"
    /\ session.hazard_data # None /\ session.analytics_data # None
    /\ "final_letter_content" \in DOMAIN session

\* the vision analysis succeeded, the aggregation failed: the warning
C15_WitnessWarning ==
    /\ pc.tab = "idle" /\ complaint.kind = "warning"
    /\ session.hazard_data # None /\ session.analytics_data = None
    /\ ui.kind = "error"

-----------------------------------------------------------------------------
(* C16 *)

DEFAULT_SUMMARY == "Road condition summary unavailable."

\* the body and the subject carry the stored combined count
CountCarried ==
    LET potholes == ToString(session.hazard_data.val.potholes)
    IN /\ Contains(complaint.subject, "(Potholes: " \o potholes \o ")")
       /\ Contains(complaint.body,
                   "Our system detected " \o potholes \o " significant hazards")

\* C16 (as stated): the body of the form carries what the vision analysis
\* stored: under "Visual Findings:" the stored summary, in the subject and the
\* body the stored combined count; the default summary text is there only if
\* the stored result has no summary.
C16_BodyCarriesVisionSummary ==
    FormRendered =>
        /\ CountCarried
        /\ "summary" \in DOMAIN session.hazard_data.val =>
              /\ Contains(complaint.body,
                          "Visual Findings:\n" \o session.hazard_data.val.summary)
              /\ ~Contains(complaint.body, DEFAULT_SUMMARY)

\* what does hold: the count is carried, and the summary is always the default
C16_BodyCarriesCountOnly ==
    FormRendered =>
        /\ CountCarried
        /\ Contains(complaint.body, "Visual Findings:\n" \o DEFAULT_SUMMARY)

=============================================================================
